---- MODULE Spec2Model ----
(***************************************************************************)
(* Model of src/webviews/Webview.ts: the abstract class WebviewEditor, a   *)
(* controller that owns one webview panel of the host (VS Code), its       *)
(* composite Disposable and the invalidate-on-visible marker.              *)
(*                                                                         *)
(* The controller runs on one event loop.  Every method body is one        *)
(* atomic action, with one exception: show() suspends at `await            *)
(* this.getHtml()`, so it is split into the call (ShowCall) and the        *)
(* continuation that runs when the document promise settles (ShowResume    *)
(* / ShowReject).                                                          *)
(*                                                                         *)
(* The host objects the class talks to are modelled by their documented    *)
(* behaviour: WebviewPanel.dispose() is idempotent and fires onDidDispose  *)
(* synchronously to the listeners still subscribed; Disposable.from(...)   *)
(* disposes its members in order and marks itself released afterwards;     *)
(* webview.postMessage() reports delivery with a truthy or falsy value     *)
(* chosen by the host.                                                     *)
(*                                                                         *)
(* postMessage and postUpdatedConfiguration are `private` in the source    *)
(* and their only caller inside the class is onViewStateChanged; they are  *)
(* modelled as operations of the component that code of the concrete       *)
(* editor may invoke, as the specification describes them.                 *)
(***************************************************************************)
EXTENDS Integers, FiniteSets, Sequences, TLC

\* ---------------------------------------------------------------- bounds
MaxPanels == 2          \* createWebviewPanel calls explored
MaxInFlight == 2        \* show() invocations awaiting getHtml at once
MaxReleaseCalls == 3    \* calls of one Disposable's dispose() explored
MaxCfg == 2             \* distinct configuration snapshots
MaxHtml == 2            \* distinct document texts

Panels == 1..MaxPanels
Configs == 1..MaxCfg
Htmls == 1..MaxHtml

\* `undefined` of the three optional fields
NoPanel == 0
NoHtml == 0

\* type Invalidates = 'all' | 'config' | undefined   ("none" is undefined)
Invalidates == {"all", "config", "none"}

NoMessage == [type |-> "none", config |-> 0, to |-> 0]

\* inbound events of onMessageReceived: null, a SaveSettingsMessage, or a
\* message with another tag; payload fields are abstracted to small sets
NullEvent == [type |-> "null", changes |-> 0, removes |-> 0, scope |-> "none", uri |-> 0]
SaveSettingsEvents ==
  [type : {"saveSettings"}, changes : {1}, removes : {1}, scope : {"user", "workspace"}, uri : {1, 2}]
OtherEvent == [type |-> "settingsChanged", changes |-> 0, removes |-> 0, scope |-> "none", uri |-> 0]
Events == {NullEvent, OtherEvent} \cup SaveSettingsEvents

VARIABLES
  panel,                \* this.panel           (NoPanel = undefined)
  disposablePanel,      \* this.disposablePanel (NoPanel = undefined; unit d owns panel d)
  invalidateOnVisible,  \* this.invalidateOnVisible
  created,              \* host: number of window.createWebviewPanel calls
  live,                 \* host: panels created and not disposed
  released,             \* host: Disposable.from units whose members were disposed
  releaseCalls,         \* host: calls of dispose() on the unit disposablePanel refers to
  html,                 \* host: webview.html per panel (NoHtml once disposed)
  inflight,             \* show() invocations suspended at await getHtml()
  settings,             \* SettingsStore: what getCustomSettings() returns now
  lastMsg,              \* host channel of the live panel: last message handed to
                        \* webview.postMessage (NoMessage once the panel is disposed)
  storeCalls,           \* SettingsStore: payloads the controller asked it to apply
  epoch,                \* history: since the last dispose()/onPanelDisposed()
  last                  \* history: the operation that ran last and what it did

vars == <<panel, disposablePanel, invalidateOnVisible, created, live, released,
          releaseCalls, html, inflight, settings, lastMsg, storeCalls,
          epoch, last>>

\* The controller and host state as one value, so that a method body is a
\* function from state to state; sends/creates/fetches/reveals count what
\* the running operation did and start at 0 in every operation.
Cur ==
  [panel |-> panel, disposablePanel |-> disposablePanel,
   invalidateOnVisible |-> invalidateOnVisible, created |-> created,
   live |-> live, released |-> released, releaseCalls |-> releaseCalls,
   html |-> html, inflight |-> inflight,
   settings |-> settings, lastMsg |-> lastMsg, storeCalls |-> storeCalls,
   sends |-> 0, creates |-> 0, fetches |-> 0, reveals |-> 0, ret |-> FALSE]

Apply(s) ==
  /\ panel' = s.panel
  /\ disposablePanel' = s.disposablePanel
  /\ invalidateOnVisible' = s.invalidateOnVisible
  /\ created' = s.created
  /\ live' = s.live
  /\ released' = s.released
  /\ releaseCalls' = s.releaseCalls
  /\ html' = s.html
  /\ inflight' = s.inflight
  /\ settings' = s.settings
  /\ lastMsg' = s.lastMsg
  /\ storeCalls' = s.storeCalls

\* ------------------------------------------------- disposal (lines 48-52, 82-88)
RECURSIVE PanelDispose(_, _), DisposableDispose(_, _), onPanelDisposed(_)

\* WebviewPanel.dispose(): no-op when already disposed; otherwise marks the
\* panel disposed (its webview content and message channel are gone) and
\* fires onDidDispose, whose listener (line 151) is this.onPanelDisposed
\* while the unit holding the subscription is unreleased
PanelDispose(s, p) ==
  IF p \notin s.live
  THEN s
  ELSE LET s1 == [s EXCEPT !.live = @ \ {p}, !.html[p] = NoHtml,
                           !.lastMsg = IF @.to = p THEN NoMessage ELSE @]
       IN IF p \in s1.released THEN s1 ELSE onPanelDisposed(s1)

\* dispose() of the unit built by Disposable.from(panel, 3 subscriptions)
\* (lines 149-154): every call is counted; the members are disposed, panel
\* first, unless an earlier call has already finished doing so
DisposableDispose(s, d) ==
  LET s1 == [s EXCEPT !.releaseCalls = @ + 1]
  IN IF d \in s1.released
     THEN s1
     ELSE LET s2 == PanelDispose(s1, d)
          IN [s2 EXCEPT !.released = @ \cup {d}]

\* a bug onPanelDisposed could have: the panel reference is kept
onPanelDisposed_keepsPanel(s) ==
  IF s.disposablePanel # NoPanel
  THEN DisposableDispose(s, s.disposablePanel)
  ELSE s

onPanelDisposed(s) ==
  LET s1 == IF s.disposablePanel # NoPanel
            THEN DisposableDispose(s, s.disposablePanel)
            ELSE s
  IN [s1 EXCEPT !.panel = NoPanel]

dispose(s) ==
  IF s.disposablePanel # NoPanel
  THEN DisposableDispose(s, s.disposablePanel)
  ELSE s

\* ------------------------------------------------- messaging (lines 59-80)
\* default parameter value of postMessage: `invalidates: Invalidates = 'all'`
DefaultInvalidates(invalidates) ==
  IF invalidates = "none" THEN "all" ELSE invalidates

\* a bug postMessage could have: the `!== 'all'` test is missing
postMessage_downgrades(s, message, invalidates, result) ==
  IF s.panel = NoPanel
  THEN [s EXCEPT !.ret = FALSE]
  ELSE LET s1 == [s EXCEPT !.lastMsg = [type |-> message.type, config |-> message.config,
                                        to |-> s.panel],
                           !.sends = @ + 1,
                           !.ret = result]
       IN IF ~result
          THEN [s1 EXCEPT !.invalidateOnVisible = DefaultInvalidates(invalidates)]
          ELSE s1

\* a bug postMessage could have: the invalidation is recorded although
\* there is no panel to send to
postMessage_recordsWithoutPanel(s, message, invalidates, result) ==
  IF s.panel = NoPanel
  THEN [s EXCEPT !.ret = FALSE,
                 !.invalidateOnVisible = IF @ # "all" THEN DefaultInvalidates(invalidates)
                                         ELSE @]
  ELSE LET s1 == [s EXCEPT !.lastMsg = [type |-> message.type, config |-> message.config,
                                        to |-> s.panel],
                           !.sends = @ + 1,
                           !.ret = result]
       IN IF ~result /\ s1.invalidateOnVisible # "all"
          THEN [s1 EXCEPT !.invalidateOnVisible = DefaultInvalidates(invalidates)]
          ELSE s1

\* result is what this.panel.webview.postMessage(message) returned
postMessage(s, message, invalidates, result) ==
  IF s.panel = NoPanel
  THEN [s EXCEPT !.ret = FALSE]
  ELSE LET s1 == [s EXCEPT !.lastMsg = [type |-> message.type, config |-> message.config,
                                        to |-> s.panel],
                           !.sends = @ + 1,
                           !.ret = result]
       IN IF ~result /\ s1.invalidateOnVisible # "all"
          THEN [s1 EXCEPT !.invalidateOnVisible = DefaultInvalidates(invalidates)]
          ELSE s1

\* getCustomSettings(): the configuration the SettingsStore holds now
getCustomSettings(s) == s.settings

\* a bug postUpdatedConfiguration could have: the configuration of the
\* message sent before is sent again instead of a fresh snapshot
postUpdatedConfiguration_replays(s, result) ==
  postMessage(s, [type |-> "settingsChanged",
                  config |-> IF s.lastMsg.config # 0 THEN s.lastMsg.config
                             ELSE getCustomSettings(s)],
              "config", result)

postUpdatedConfiguration(s, result) ==
  postMessage(s, [type |-> "settingsChanged", config |-> getCustomSettings(s)],
              "config", result)

\* ------------------------------------------------- show (lines 127-157)
\* show() up to its first await: getHtml() has asked for the document
showCall(s) ==
  [s EXCEPT !.inflight = @ + 1, !.fetches = @ + 1]

\* a bug show could have: a panel is created even when one is open
showResume_alwaysCreates(s, h) ==
  LET p == s.created + 1
  IN [s EXCEPT !.inflight = @ - 1, !.created = p, !.live = @ \cup {p},
               !.panel = p, !.disposablePanel = p, !.releaseCalls = 0,
               !.html[p] = h, !.creates = @ + 1]

\* a bug show could have: an open panel is revealed without the new html
showResume_staleHtml(s, h) ==
  IF s.panel # NoPanel
  THEN [s EXCEPT !.inflight = @ - 1, !.reveals = @ + 1]
  ELSE LET p == s.created + 1
       IN [s EXCEPT !.inflight = @ - 1, !.created = p, !.live = @ \cup {p},
                    !.panel = p, !.disposablePanel = p, !.releaseCalls = 0,
                    !.html[p] = h, !.creates = @ + 1]

\* show() after `await this.getHtml()` resolved with text h
showResume(s, h) ==
  IF s.panel # NoPanel
  THEN [s EXCEPT !.inflight = @ - 1, !.html[s.panel] = h, !.reveals = @ + 1]
  ELSE LET p == s.created + 1
       IN [s EXCEPT !.inflight = @ - 1, !.created = p, !.live = @ \cup {p},
                    !.panel = p, !.disposablePanel = p, !.releaseCalls = 0,
                    !.html[p] = h, !.creates = @ + 1]

\* a bug show could have: the panel is created before the document is read
showReject_createsPanel(s) ==
  IF s.panel # NoPanel
  THEN [s EXCEPT !.inflight = @ - 1]
  ELSE LET p == s.created + 1
       IN [s EXCEPT !.inflight = @ - 1, !.created = p, !.live = @ \cup {p},
                    !.panel = p, !.disposablePanel = p, !.releaseCalls = 0,
                    !.creates = @ + 1]

\* show() when getHtml() rejects: the rejection propagates, nothing else runs
showReject(s) ==
  [s EXCEPT !.inflight = @ - 1]

\* ------------------------------------------------- view state (lines 90-108)
\* a bug onViewStateChanged could have: the marker is not cleared
onViewStateChanged_keepsMarker(s, vis, result) ==
  IF s.invalidateOnVisible = "none" \/ ~vis
  THEN s
  ELSE IF s.invalidateOnVisible = "config"
       THEN postUpdatedConfiguration(s, result)
       ELSE showCall(s)

\* a bug onViewStateChanged could have: every marker pushes the configuration
onViewStateChanged_alwaysPosts(s, vis, result) ==
  IF s.invalidateOnVisible = "none" \/ ~vis
  THEN s
  ELSE postUpdatedConfiguration([s EXCEPT !.invalidateOnVisible = "none"], result)

\* a bug onViewStateChanged could have: event.webviewPanel.visible is not tested
onViewStateChanged_ignoresVisible(s, vis, result) ==
  IF s.invalidateOnVisible = "none"
  THEN s
  ELSE LET invalidContext == s.invalidateOnVisible
           s1 == [s EXCEPT !.invalidateOnVisible = "none"]
       IN IF invalidContext = "config"
          THEN postUpdatedConfiguration(s1, result)
          ELSE showCall(s1)

\* vis is event.webviewPanel.visible
onViewStateChanged(s, vis, result) ==
  IF s.invalidateOnVisible = "none" \/ ~vis
  THEN s
  ELSE LET invalidContext == s.invalidateOnVisible
           s1 == [s EXCEPT !.invalidateOnVisible = "none"]
       IN IF invalidContext = "config"
          THEN postUpdatedConfiguration(s1, result)
          ELSE showCall(s1)

\* ------------------------------------------------- inbound (lines 110-125)
\* a bug onMessageReceived could have: every non-null event is forwarded
onMessageReceived_forwardsAll(s, event) ==
  IF event.type = "null"
  THEN s
  ELSE [s EXCEPT !.storeCalls = @ \cup {[changes |-> event.changes, removes |-> event.removes,
                                         scope |-> event.scope, uri |-> event.uri]}]

\* both branches of the switch return without calling a collaborator
onMessageReceived(s, event) ==
  IF event.type = "null"
  THEN s
  ELSE IF event.type = "saveSettings"
       THEN s
       ELSE s

\* ------------------------------------------------- history
NoEpoch ==
  [created |-> 0, completed |-> FALSE, overlapped |-> FALSE, called |-> FALSE, by |-> "init"]

\* what the operation op did, going from the current state to s2; pre is
\* the marker before an operation that may read or write it, stale the
\* configuration of the message sent before a view-state push
LastOf(op, s2, vis, inc, ok, h, ev) ==
  [op |-> op, vis |-> vis, inc |-> inc, ok |-> ok, html |-> h, ev |-> ev,
   pre |-> IF op \in {"postMessage", "postUpdatedConfiguration", "onViewStateChanged"}
           THEN invalidateOnVisible ELSE "none",
   stale |-> IF op = "onViewStateChanged" /\ s2.sends > 0 THEN lastMsg.config ELSE 0,
   sends |-> s2.sends, creates |-> s2.creates, fetches |-> s2.fetches,
   reveals |-> s2.reveals]

\* a show() call started while another one was still awaiting its document
EpochAfterCall(s2) ==
  IF s2.fetches > 0
  THEN [epoch EXCEPT !.overlapped = @ \/ inflight >= 1, !.called = TRUE]
  ELSE epoch

EpochReset(by) ==
  [created |-> 0, completed |-> FALSE, overlapped |-> (inflight >= 2), called |-> FALSE,
   by |-> by]

\* ------------------------------------------------- initial state
\* after the constructor (lines 38-41): all three fields are undefined
Init ==
  /\ panel = NoPanel
  /\ disposablePanel = NoPanel
  /\ invalidateOnVisible = "none"
  /\ created = 0
  /\ live = {}
  /\ released = {}
  /\ releaseCalls = 0
  /\ html = [p \in Panels |-> NoHtml]
  /\ inflight = 0
  /\ settings \in Configs
  /\ lastMsg = NoMessage
  /\ storeCalls = {}
  /\ epoch = NoEpoch
  /\ last = [op |-> "new", vis |-> FALSE, inc |-> "none", ok |-> FALSE,
             html |-> NoHtml, ev |-> NullEvent, pre |-> "none", stale |-> 0,
             sends |-> 0, creates |-> 0, fetches |-> 0, reveals |-> 0]

\* ------------------------------------------------- actions
\* show() is called: runs to `await this.getHtml()` (line 128)
ShowCall ==
  /\ inflight < MaxInFlight
  /\ LET s2 == showCall(Cur)
     IN /\ Apply(s2)
        /\ epoch' = EpochAfterCall(s2)
        /\ last' = LastOf("showCall", s2, FALSE, "none", FALSE, NoHtml, NullEvent)

\* the document of one suspended show() arrives: lines 130-157 run
ShowResume ==
  /\ inflight > 0
  /\ panel # NoPanel \/ created < MaxPanels
  /\ \E h \in Htmls :
       LET s2 == showResume(Cur, h)
       IN /\ Apply(s2)
          /\ epoch' = [epoch EXCEPT !.created = @ + s2.creates, !.completed = TRUE]
          /\ last' = LastOf("show", s2, FALSE, "none", FALSE, h, NullEvent)

\* the document of one suspended show() cannot be read: show() rejects
ShowReject ==
  /\ inflight > 0
  /\ LET s2 == showReject(Cur)
     IN /\ Apply(s2)
        /\ epoch' = epoch
        /\ last' = LastOf("showRejected", s2, FALSE, "none", FALSE, NoHtml, NullEvent)

\* dispose() is called (also what the constructor's callback runs)
Dispose ==
  LET s2 == dispose(Cur)
  IN /\ s2.releaseCalls <= MaxReleaseCalls
     /\ Apply(s2)
     /\ epoch' = EpochReset("dispose")
     /\ last' = LastOf("dispose", s2, FALSE, "none", FALSE, NoHtml, NullEvent)

\* the user closes panel p: the host disposes it, which fires onDidDispose
\* and so runs onPanelDisposed
PanelClosed ==
  \E p \in live :
    LET s2 == PanelDispose(Cur, p)
    IN /\ s2.releaseCalls <= MaxReleaseCalls
       /\ Apply(s2)
       /\ epoch' = EpochReset("onPanelDisposed")
       /\ last' = LastOf("onPanelDisposed", s2, FALSE, "none", FALSE, NoHtml, NullEvent)

\* the host changes the view state of a live panel and fires
\* onDidChangeViewState with event.webviewPanel.visible = v; result is what
\* webview.postMessage returns if the handler calls it
ViewStateChanged ==
  \E v \in BOOLEAN, result \in BOOLEAN :
    LET s2 == onViewStateChanged(Cur, v, result)
    IN /\ live # {}
       /\ s2.sends = 0 => result
       /\ s2.inflight <= MaxInFlight
       /\ Apply(s2)
       /\ epoch' = EpochAfterCall(s2)
       /\ last' = LastOf("onViewStateChanged", s2, v, "none", s2.ret, NoHtml, NullEvent)

\* postMessage(message, invalidates) with a settingsChanged message carrying c
PostMessage ==
  \E c \in Configs, inv \in Invalidates, result \in BOOLEAN :
    LET s2 == postMessage(Cur, [type |-> "settingsChanged", config |-> c], inv, result)
    IN /\ s2.sends = 0 => result
       /\ Apply(s2)
       /\ epoch' = epoch
       /\ last' = LastOf("postMessage", s2, FALSE, inv, s2.ret, NoHtml, NullEvent)

\* postUpdatedConfiguration()
PostUpdatedConfiguration ==
  \E result \in BOOLEAN :
    LET s2 == postUpdatedConfiguration(Cur, result)
    IN /\ s2.sends = 0 => result
       /\ Apply(s2)
       /\ epoch' = epoch
       /\ last' = LastOf("postUpdatedConfiguration", s2, FALSE, "config", s2.ret,
                         NoHtml, NullEvent)

\* the webview of a live panel posts event: onMessageReceived(event)
MessageReceived ==
  \E event \in Events :
    LET s2 == onMessageReceived(Cur, event)
    IN /\ live # {}
       /\ Apply(s2)
       /\ epoch' = epoch
       /\ last' = LastOf("onMessageReceived", s2, FALSE, "none", FALSE, NoHtml, event)

\* the user edits the settings: getCustomSettings() returns c from now on
SettingsEdited ==
  \E c \in Configs \ {settings} :
    LET s2 == [Cur EXCEPT !.settings = c]
    IN /\ Apply(s2)
       /\ epoch' = epoch
       /\ last' = LastOf("settingsEdited", s2, FALSE, "none", FALSE, NoHtml, NullEvent)

Next ==
  \/ ShowCall
  \/ ShowResume
  \/ ShowReject
  \/ Dispose
  \/ PanelClosed
  \/ ViewStateChanged
  \/ PostMessage
  \/ PostUpdatedConfiguration
  \/ MessageReceived
  \/ SettingsEdited

Spec == Init /\ [][Next]_vars

TypeOK ==
  /\ panel \in Panels \cup {NoPanel}
  /\ disposablePanel \in Panels \cup {NoPanel}
  /\ invalidateOnVisible \in Invalidates
  /\ created \in 0..MaxPanels
  /\ live \subseteq 1..created
  /\ released \subseteq 1..created
  /\ inflight \in 0..MaxInFlight
  /\ settings \in Configs

\* ------------------------------------------------- properties
ControllerState == <<panel, disposablePanel, invalidateOnVisible>>
HostState == <<created, live, released, releaseCalls, html, lastMsg, storeCalls>>

\* C1: between two disposals (dispose() or onPanelDisposed()) the show()
\* calls issue at most one panel creation request, exactly one once a call
\* has completed, also when calls overlap; and a show() that finds a panel
\* open only replaces its html and reveals it: no creation request, no new
\* disposal unit, nothing released.
C1_OnePanelPerShowSequence ==
  /\ [](/\ epoch.created <= 1
        /\ epoch.completed => epoch.created = 1)
  /\ [][(last'.op = "show" /\ panel # NoPanel) =>
          /\ created' = created
          /\ panel' = panel
          /\ disposablePanel' = disposablePanel
          /\ live' = live /\ released' = released /\ releaseCalls' = releaseCalls
          /\ html' = [html EXCEPT ![panel] = last'.html]
          /\ last'.reveals = 1]_vars

C1_Witness ==
  /\ last.op = "show" /\ last.reveals = 1 /\ last.creates = 0
  /\ epoch.overlapped /\ epoch.completed /\ epoch.created = 1

\* C2 as stated: once a disposal unit has been released, a later dispose()
\* or onPanelDisposed() is a no-op that does not invoke the unit's release
\* again.
C2_ReleaseInvokedOnce ==
  [][(/\ last'.op \in {"dispose", "onPanelDisposed"}
      /\ disposablePanel # NoPanel
      /\ disposablePanel \in released)
     => releaseCalls' = releaseCalls]_vars

\* merge(pending, incoming) of the specification, for an incoming class
MergeInvalidation(pending, incoming) ==
  IF pending = "all" \/ incoming = "all" THEN "all" ELSE incoming

C4_ConfigPushClearsMarker ==
  (last.op = "onViewStateChanged" /\ last.vis /\ last.pre = "config")
  => /\ last.sends = 1
     /\ lastMsg.type = "settingsChanged"
     /\ invalidateOnVisible = "none"

\* C4 amended: onViewStateChanged with the panel visible and the marker
\* `config` sends exactly one SettingsChanged message to the controller's
\* panel; afterwards the marker is none if the delivery of that message was
\* confirmed, and `config` again if it was not.
C4_ConfigPushClearsMarkerIfDelivered ==
  (last.op = "onViewStateChanged" /\ last.vis /\ last.pre = "config")
  => /\ last.sends = 1
     /\ lastMsg.type = "settingsChanged"
     /\ lastMsg.to = panel
     /\ invalidateOnVisible = IF last.ok THEN "none" ELSE "config"

C4_Witness ==
  /\ last.op = "onViewStateChanged" /\ last.vis /\ last.pre = "config"
  /\ last.sends = 1 /\ last.ok
  /\ invalidateOnVisible = "none"

\* C5: onViewStateChanged with the panel visible and the marker `all` clears
\* the marker and starts show() (a new document fetch) without sending any
\* message; and every show() whose fetch resolves leaves the controller's
\* panel rendering the text it fetched.
C5_AllStartsShow ==
  /\ [][(last'.op = "onViewStateChanged" /\ last'.vis /\ invalidateOnVisible = "all") =>
          /\ invalidateOnVisible' = "none"
          /\ inflight' = inflight + 1
          /\ last'.fetches = 1
          /\ last'.sends = 0
          /\ lastMsg' = lastMsg]_vars
  /\ [][last'.op = "show" =>
          /\ inflight' = inflight - 1
          /\ panel' # NoPanel
          /\ html'[panel'] = last'.html]_vars

C5_Witness ==
  /\ last.op = "onViewStateChanged" /\ last.vis /\ last.pre = "all"
  /\ last.fetches = 1 /\ last.sends = 0
  /\ invalidateOnVisible = "none" /\ inflight > 0

\* C6: onViewStateChanged with the panel not visible, or with no marker,
\* sends nothing, starts no fetch and changes neither the controller's
\* fields nor anything in the host.
C6_HiddenOrClean_NoOp ==
  [][(last'.op = "onViewStateChanged" /\ (~last'.vis \/ invalidateOnVisible = "none")) =>
       /\ UNCHANGED ControllerState
       /\ UNCHANGED HostState
       /\ UNCHANGED inflight
       /\ last'.sends = 0 /\ last'.fetches = 0]_vars

C6_Witness ==
  /\ last.op = "onViewStateChanged" /\ ~last.vis /\ last.pre = "config"
  /\ last.sends = 0 /\ last.fetches = 0
  /\ invalidateOnVisible = "config"

\* C7 as stated: a SaveSettings message handled by onMessageReceived has
\* been forwarded to the SettingsStore with its changes, removes, scope, uri.
C7_SaveSettingsForwarded ==
  (last.op = "onMessageReceived" /\ last.ev.type = "saveSettings")
  => [changes |-> last.ev.changes, removes |-> last.ev.removes,
      scope |-> last.ev.scope, uri |-> last.ev.uri] \in storeCalls

\* C8: after onPanelDisposed() the controller has no panel, and the first
\* show() to complete after it issues exactly one creation request and makes
\* that new, live panel the controller's panel.
C8_RecreatesAfterPanelDisposed ==
  /\ [](last.op = "onPanelDisposed" => panel = NoPanel)
  /\ [][(last'.op = "show" /\ epoch.by = "onPanelDisposed" /\ ~epoch.completed) =>
          /\ created' = created + 1
          /\ panel' = created'
          /\ disposablePanel' = created'
          /\ created' \in live' \ released'
          /\ live' = live \cup {created'}]_vars

C8_Witness ==
  /\ last.op = "show" /\ last.creates = 1
  /\ epoch.by = "onPanelDisposed" /\ epoch.created = 1
  /\ created >= 2 /\ panel = created /\ panel \in live

\* C9: a show() that has completed leaves the controller referring to one
\* panel, which is live, is owned by the controller's unreleased disposal
\* unit and renders the text that call fetched.
C9_ShowLeavesLivePanel ==
  last.op = "show"
  => /\ panel # NoPanel
     /\ panel \in live
     /\ disposablePanel = panel
     /\ panel \notin released
     /\ html[panel] = last.html

C9_Witness ==
  /\ last.op = "show" /\ epoch.by = "dispose"
  /\ created = 2 /\ panel = 2 /\ live = {2}
  /\ html[2] = last.html /\ html[1] = NoHtml

\* C10 as stated: the SettingsChanged message sent when the panel becomes
\* visible with the marker `config` carries the configuration the
\* SettingsStore holds at that moment, and afterwards the marker is none.
C10_FreshSnapshotThenClean ==
  (last.op = "onViewStateChanged" /\ last.vis /\ last.pre = "config" /\ last.sends = 1)
  => /\ lastMsg = [type |-> "settingsChanged", config |-> settings, to |-> panel]
     /\ invalidateOnVisible = "none"

\* C10 amended: the SettingsChanged message sent when the panel becomes
\* visible with the marker `config` carries the configuration the
\* SettingsStore holds at that moment (nothing of the undelivered message is
\* kept); afterwards the marker is none if the delivery of that message was
\* confirmed and `config` again if it was not.
C10_FreshSnapshotCleanIfDelivered ==
  (last.op = "onViewStateChanged" /\ last.vis /\ last.pre = "config" /\ last.sends = 1)
  => /\ lastMsg = [type |-> "settingsChanged", config |-> settings, to |-> panel]
     /\ last.ok => invalidateOnVisible = "none"
     /\ ~last.ok => invalidateOnVisible = "config"

C10_Witness ==
  /\ last.op = "onViewStateChanged" /\ last.vis /\ last.pre = "config"
  /\ last.sends = 1 /\ last.ok
  /\ last.stale # 0 /\ last.stale # settings
  /\ lastMsg.config = settings
  /\ invalidateOnVisible = "none"

\* C11: a show() whose document fetch fails changes nothing: the call up to
\* the await and the rejection both leave the controller's three fields and
\* the host (no creation request, no disposal unit, nothing sent) as they
\* were; the rejection only ends the invocation.
C11_FetchFailureChangesNothing ==
  /\ [][last'.op = "showRejected" =>
          /\ UNCHANGED ControllerState
          /\ UNCHANGED HostState
          /\ inflight' = inflight - 1
          /\ last'.creates = 0 /\ last'.reveals = 0 /\ last'.sends = 0]_vars
  /\ [][last'.op = "showCall" =>
          /\ UNCHANGED ControllerState
          /\ UNCHANGED HostState
          /\ last'.creates = 0]_vars

C11_Witness ==
  /\ last.op = "showRejected"
  /\ panel = NoPanel /\ disposablePanel = NoPanel /\ created = 0
  /\ inflight = 0

\* C12: onMessageReceived with null or with a message of another tag than
\* saveSettings calls no collaborator, sends nothing and leaves controller
\* and host state unchanged.
C12_NullOrUnknownIgnored ==
  [][(last'.op = "onMessageReceived" /\ last'.ev.type # "saveSettings") =>
       /\ UNCHANGED ControllerState
       /\ UNCHANGED HostState
       /\ UNCHANGED <<inflight, settings>>
       /\ last'.sends = 0 /\ last'.fetches = 0]_vars

C12_Witness ==
  /\ last.op = "onMessageReceived" /\ last.ev = OtherEvent
  /\ storeCalls = {} /\ last.sends = 0

\* C13 as stated: the disposal unit reference is present exactly when the
\* panel reference is present.
C13_UnitIffPanel ==
  (disposablePanel # NoPanel) <=> (panel # NoPanel)

\* C14: at most one panel created by the controller is live at any time.
C14_AtMostOneLivePanel ==
  Cardinality(live) <= 1

C14_Witness ==
  /\ created = 2 /\ live = {2} /\ panel = 2
  /\ epoch.overlapped

\* C15 as stated: of two overlapping show() calls started while no panel
\* exists, the one resuming second also finds no panel and issues a second
\* creation request, and the controller's references move to that panel.
C15_OverlapCreatesTwo ==
  [][(last.op = "show" /\ last.creates = 1 /\ last'.op = "show") =>
       /\ last'.creates = 1
       /\ created' = created + 1
       /\ panel' = created'
       /\ disposablePanel' = created']_vars

\* C15 amended: of two overlapping show() calls started while no panel
\* exists, the one whose fetch resolves first creates the panel; the one
\* resuming second finds that panel, only replaces its html and reveals it,
\* so one panel is created and the controller's references stay on it.
C15_OverlapCreatesOne ==
  [][(last.op = "show" /\ last.creates = 1 /\ last'.op = "show") =>
       /\ last'.creates = 0 /\ last'.reveals = 1
       /\ created' = created
       /\ panel' = panel /\ panel' # NoPanel
       /\ disposablePanel' = disposablePanel
       /\ live' = live /\ live' = {panel'}
       /\ html'[panel'] = last'.html]_vars

C15_Witness ==
  /\ last.op = "show" /\ last.reveals = 1
  /\ epoch.overlapped /\ epoch.by = "init"
  /\ created = 1 /\ panel = 1 /\ live = {1} /\ inflight = 0
  /\ html[1] = last.html

RefreshFailed ==
  \/ /\ last'.op = "onViewStateChanged" /\ last'.vis
     /\ invalidateOnVisible = "config" /\ last'.sends = 1 /\ ~last'.ok
  \/ /\ last.op = "onViewStateChanged" /\ last.vis /\ last.pre = "all"
     /\ inflight = 1 /\ last'.op = "showRejected"

\* C17 as stated: when the refresh triggered on reveal fails, an
\* invalidation is still pending afterwards.
C17_FailedRefreshStaysPending ==
  [][RefreshFailed => invalidateOnVisible' # "none"]_vars

\* C17 amended: the marker returns to none only when onViewStateChanged
\* consumes it for a visible panel (a sent and confirmed push for `config`,
\* a started re-fetch for `all`); a push that is not confirmed leaves
\* `config` pending, but a failed re-fetch does not restore the marker.
C17_MarkerClearedOnlyOnReveal ==
  /\ [][(invalidateOnVisible # "none" /\ invalidateOnVisible' = "none") =>
          /\ last'.op = "onViewStateChanged" /\ last'.vis
          /\ invalidateOnVisible = "config" => last'.sends = 1 /\ last'.ok
          /\ invalidateOnVisible = "all" => last'.fetches = 1]_vars
  /\ [][(last'.op = "onViewStateChanged" /\ last'.vis
         /\ invalidateOnVisible = "config" /\ last'.sends = 1 /\ ~last'.ok) =>
          invalidateOnVisible' = "config"]_vars
  /\ [][last'.op = "showRejected" => invalidateOnVisible' = invalidateOnVisible]_vars

C17_Witness ==
  /\ last.op = "onViewStateChanged" /\ last.vis /\ last.pre = "config"
  /\ last.sends = 1 /\ ~last.ok
  /\ invalidateOnVisible = "config"
  /\ panel \in live

\* C18 as stated: the marker is none whenever the controller has no panel.
C18_NoMarkerWithoutPanel ==
  panel = NoPanel => invalidateOnVisible = "none"

\* C19 as stated: once dispose() has been called and every show() that was
\* in flight at that moment has finished (none was called since), no panel
\* of the controller is live and every disposal unit built is released.
C19_DisposeReleasesEveryPanel ==
  (epoch.by = "dispose" /\ ~epoch.called /\ inflight = 0)
  => /\ live = {}
     /\ released = 1..created

====
